---- MODULE Spec2Model ----
(***************************************************************************)
(* Model of the drone-s3-cache entry point (src/main.go): the flag table   *)
(* built by main(), one invocation of run(), s3Storage() and               *)
(* isMultipleModes().  Strings are TLC strings; Len, \o and SubSeq act on  *)
(* them character by character.                                            *)
(***************************************************************************)
EXTENDS Integers, Sequences, FiniteSets, TLC

\* ------------------------------------------------------------------ bounds
\* Largest number of mount entries in PLUGIN_MOUNT.
MaxMounts == 1

\* ------------------------------------------------------- values and inputs
\* An environment variable that is not set.
Unset == "<unset>"
\* The nil error.
Nil == "<nil>"
\* The nil storage client and the nil *Plugin.
NilPtr == [nil |-> TRUE]

\* Mode constants of the Plugin (declared next to Plugin, outside main.go).
RebuildMode == "rebuild"
RestoreMode == "restore"
FlushMode == "flush"

RECURSIVE JoinMounts(_)
\* n mount entries as the comma separated value of PLUGIN_MOUNT.
JoinMounts(n) ==
  IF n = 1 THEN "./node_modules" ELSE JoinMounts(n - 1) \o ",./node_modules"

MountInputs == {Unset} \cup {JoinMounts(n) : n \in 1..MaxMounts}
BoolInputs == {Unset, "true"}
PathInputs == {Unset, "/custom/"}
FallbackInputs == {Unset, "/fb/"}
FlushPathInputs == {Unset, "/fl/"}
FilenameInputs == {Unset, "cache.tgz"}
OwnerInputs == {Unset, "acme"}
BucketInputs == {Unset, "bkt"}
RepoInputs == {Unset, "widget"}
BranchInputs == {Unset, "feature-x"}
FlushAgeInputs == {Unset, "0", "-5", "x1", ""}
ServerInputs == {Unset, "http://minio:9000", "https://s3.local", "s3"}
AccessInputs == {Unset, "AKIA"}
SecretInputs == {Unset, "s3cr3t"}

\* The process environments the model runs the plugin in.
Environments ==
  [PLUGIN_FILENAME: FilenameInputs, PLUGIN_PATH: PathInputs,
   PLUGIN_FALLBACK_PATH: FallbackInputs, PLUGIN_FLUSH_PATH: FlushPathInputs,
   PLUGIN_MOUNT: MountInputs, PLUGIN_REBUILD: BoolInputs,
   PLUGIN_RESTORE: BoolInputs, PLUGIN_FLUSH: BoolInputs,
   PLUGIN_FLUSH_AGE: FlushAgeInputs, PLUGIN_DEBUG: {Unset},
   PLUGIN_BUCKET: BucketInputs, DRONE_REPO_OWNER: OwnerInputs,
   DRONE_REPO_NAME: RepoInputs, DRONE_COMMIT_BRANCH: BranchInputs,
   PLUGIN_SERVER: ServerInputs, CACHE_S3_SERVER: {Unset},
   PLUGIN_ACCESS_KEY: AccessInputs, CACHE_S3_ACCESS_KEY: {Unset},
   PLUGIN_SECRET_KEY: SecretInputs, CACHE_S3_SECRET_KEY: {Unset}]

\* ------------------------------------------------------------ flag table
\* The flags main() registers on the app.
Flags ==
  {"filename", "path", "fallback_path", "mount", "rebuild", "restore",
   "flush", "flush_age", "debug", "repo.owner", "repo.name", "commit.branch",
   "server", "access-key", "secret-key"}

\* EnvVar of each registered flag, in the order they are tried.
FlagEnvVar(name) ==
  CASE name = "filename" -> <<"PLUGIN_FILENAME">>
    [] name = "path" -> <<"PLUGIN_PATH">>
    [] name = "fallback_path" -> <<"PLUGIN_FALLBACK_PATH">>
    [] name = "mount" -> <<"PLUGIN_MOUNT">>
    [] name = "rebuild" -> <<"PLUGIN_REBUILD">>
    [] name = "restore" -> <<"PLUGIN_RESTORE">>
    [] name = "flush" -> <<"PLUGIN_FLUSH">>
    [] name = "flush_age" -> <<"PLUGIN_FLUSH_AGE">>
    [] name = "debug" -> <<"PLUGIN_DEBUG">>
    [] name = "repo.owner" -> <<"PLUGIN_BUCKET", "DRONE_REPO_OWNER">>
    [] name = "repo.name" -> <<"DRONE_REPO_NAME">>
    [] name = "commit.branch" -> <<"DRONE_COMMIT_BRANCH">>
    [] name = "server" -> <<"PLUGIN_SERVER", "CACHE_S3_SERVER">>
    [] name = "access-key" -> <<"PLUGIN_ACCESS_KEY", "CACHE_S3_ACCESS_KEY">>
    [] name = "secret-key" -> <<"PLUGIN_SECRET_KEY", "CACHE_S3_SECRET_KEY">>

\* Value of each registered flag when none of its variables is set.
FlagValue(name) ==
  CASE name = "flush_age" -> "30"
    [] name = "commit.branch" -> "master"
    [] OTHER -> ""

RECURSIVE LookupEnv(_, _)
\* The first variable of the list that is set, or Unset.
LookupEnv(e, names) ==
  IF names = <<>> THEN Unset
  ELSE IF e[Head(names)] # Unset THEN e[Head(names)]
  ELSE LookupEnv(e, Tail(names))

\* c.String / c.GlobalString: the value of a registered flag, "" for a name
\* that is not in the flag set.
String(e, name) ==
  IF name \notin Flags THEN ""
  ELSE LET v == LookupEnv(e, FlagEnvVar(name))
       IN IF v = Unset THEN FlagValue(name) ELSE v

\* c.Bool
Bool(e, name) ==
  IF name \notin Flags THEN FALSE
  ELSE LookupEnv(e, FlagEnvVar(name)) \in {"1", "t", "T", "true", "TRUE", "True"}

RECURSIVE Split(_, _)
\* strings.Split(s, sep) for a one character separator.
Split(s, acc) ==
  IF s = "" THEN <<acc>>
  ELSE IF SubSeq(s, 1, 1) = "," THEN <<acc>> \o Split(SubSeq(s, 2, Len(s)), "")
  ELSE Split(SubSeq(s, 2, Len(s)), acc \o SubSeq(s, 1, 1))

\* c.StringSlice
StringSlice(e, name) ==
  IF name \notin Flags THEN <<>>
  ELSE LET v == LookupEnv(e, FlagEnvVar(name))
       IN IF v = Unset THEN <<>> ELSE Split(v, "")

\* ------------------------------------------------------- library helpers
\* strings.HasPrefix
HasPrefix(s, prefix) ==
  Len(s) >= Len(prefix) /\ SubSeq(s, 1, Len(prefix)) = prefix

\* s[n:]
SliceFrom(s, n) == SubSeq(s, n + 1, Len(s))

DigitChars == {"0", "1", "2", "3", "4", "5", "6", "7", "8", "9"}

DigitVal(ch) ==
  CASE ch = "0" -> 0 [] ch = "1" -> 1 [] ch = "2" -> 2 [] ch = "3" -> 3
    [] ch = "4" -> 4 [] ch = "5" -> 5 [] ch = "6" -> 6 [] ch = "7" -> 7
    [] ch = "8" -> 8 [] ch = "9" -> 9

RECURSIVE AllDigits(_)
AllDigits(s) ==
  s = "" \/ (SubSeq(s, 1, 1) \in DigitChars /\ AllDigits(SubSeq(s, 2, Len(s))))

RECURSIVE DigitsValue(_, _)
DigitsValue(s, n) ==
  IF s = "" THEN n
  ELSE DigitsValue(SubSeq(s, 2, Len(s)), n * 10 + DigitVal(SubSeq(s, 1, 1)))

\* strconv.Atoi: an optional sign followed by one or more decimal digits.
Atoi(s) ==
  LET signed == s # "" /\ SubSeq(s, 1, 1) \in {"-", "+"}
      digits == IF signed THEN SubSeq(s, 2, Len(s)) ELSE s
  IN IF digits = "" \/ ~AllDigits(digits)
     THEN [n |-> 0,
           err |-> "strconv.Atoi: parsing \"" \o s \o "\": invalid syntax"]
     ELSE [n |-> IF signed /\ SubSeq(s, 1, 1) = "-"
                 THEN 0 - DigitsValue(digits, 0) ELSE DigitsValue(digits, 0),
           err |-> Nil]

\* ------------------------------------------------------- path defaulting
\* resolvePath that ignores the path option.
resolvePath_AlwaysDefault(e) ==
  "/" \o String(e, "repo.owner") \o "/" \o String(e, "repo.name")
  \o "/" \o String(e, "commit.branch") \o "/"

\* run(), lines 153-166: the path the cache files are placed under.
resolvePath(e) ==
  LET path_ == String(e, "path")
  IN IF Len(path_) = 0
     THEN "/" \o String(e, "repo.owner") \o "/" \o String(e, "repo.name")
          \o "/" \o String(e, "commit.branch") \o "/"
     ELSE path_

\* resolveFallbackPath that defaults to the branch instead of master.
resolveFallbackPath_Branch(e) ==
  LET fallbackPath_ == String(e, "fallback_path")
  IN IF Len(fallbackPath_) = 0
     THEN "/" \o String(e, "repo.owner") \o "/" \o String(e, "repo.name")
          \o "/" \o String(e, "commit.branch") \o "/"
     ELSE fallbackPath_

\* run(), lines 168-180: the path the cache files are retrieved from when
\* the path has none.
resolveFallbackPath(e) ==
  LET fallbackPath_ == String(e, "fallback_path")
  IN IF Len(fallbackPath_) = 0
     THEN "/" \o String(e, "repo.owner") \o "/" \o String(e, "repo.name")
          \o "/master/"
     ELSE fallbackPath_

\* run(), lines 182-194: the path the cache files are flushed from.
resolveFlushPath(e) ==
  LET flushPath_ == String(e, "flush_path")
  IN IF Len(flushPath_) = 0
     THEN "/" \o String(e, "repo.owner") \o "/" \o String(e, "repo.name")
          \o "/"
     ELSE flushPath_

\* resolveFilename without the default.
resolveFilename_NoDefault(e) == String(e, "filename")

\* run(), lines 196-203: the name of the cache file.
resolveFilename(e) ==
  LET filename_ == String(e, "filename")
  IN IF Len(filename_) = 0 THEN "archive.tar" ELSE filename_

\* ------------------------------------------------------- isMultipleModes
RECURSIVE MultipleFrom(_, _)
\* The loop of isMultipleModes over the remaining flags, b being the
\* "a true flag was seen" variable.
MultipleFrom(bools, b) ==
  IF bools = <<>> THEN FALSE
  ELSE LET v == Head(bools)
       IN IF b /\ b = v THEN TRUE
          ELSE MultipleFrom(Tail(bools), IF v THEN TRUE ELSE b)

RECURSIVE MultipleFrom_Adjacent(_, _)
\* The loop with b assigned the last flag instead of latched.
MultipleFrom_Adjacent(bools, b) ==
  IF bools = <<>> THEN FALSE
  ELSE LET v == Head(bools)
       IN IF b /\ b = v THEN TRUE
          ELSE MultipleFrom_Adjacent(Tail(bools), v)

\* isMultipleModes that only sees two true flags next to each other.
isMultipleModes_Adjacent(bools) == MultipleFrom_Adjacent(bools, FALSE)

isMultipleModes(bools) == MultipleFrom(bools, FALSE)

\* ------------------------------------------------------------- s3Storage
\* s3Options that cuts seven characters off an https:// server too.
s3Options_SliceSeven(e) ==
  LET server == String(e, "server")
      useSSL == IF Len(server) > 0 THEN HasPrefix(server, "https://") ELSE TRUE
      bad == Len(server) > 0 /\ ~useSSL /\ ~HasPrefix(server, "http://")
      endpoint == IF Len(server) > 0
                  THEN IF ~useSSL THEN SliceFrom(server, 7)
                       ELSE SliceFrom(server, 7)
                  ELSE "s3.amazonaws.com"
      access == String(e, "access-key")
      secret == String(e, "secret-key")
  IN IF bad
     THEN [err |-> "Invalid server " \o server \o ". Needs to be a HTTP URI",
           opts |-> NilPtr]
     ELSE IF Len(access) = 0 \/ Len(secret) = 0
     THEN [err |-> "No access credentials provided", opts |-> NilPtr]
     ELSE [err |-> Nil,
           opts |-> [Endpoint |-> endpoint, Access |-> access,
                     Secret |-> secret, UseSSL |-> useSSL]]

\* The outcome of s3Storage before s3.New is called: the error it returns,
\* or the s3.Options it passes on.
s3Options(e) ==
  LET server == String(e, "server")
      useSSL == IF Len(server) > 0 THEN HasPrefix(server, "https://") ELSE TRUE
      bad == Len(server) > 0 /\ ~useSSL /\ ~HasPrefix(server, "http://")
      endpoint == IF Len(server) > 0
                  THEN IF ~useSSL THEN SliceFrom(server, 7)
                       ELSE SliceFrom(server, 8)
                  ELSE "s3.amazonaws.com"
      access == String(e, "access-key")
      secret == String(e, "secret-key")
  IN IF bad
     THEN [err |-> "Invalid server " \o server \o ". Needs to be a HTTP URI",
           opts |-> NilPtr]
     ELSE IF Len(access) = 0 \/ Len(secret) = 0
     THEN [err |-> "No access credentials provided", opts |-> NilPtr]
     ELSE [err |-> Nil,
           opts |-> [Endpoint |-> endpoint, Access |-> access,
                     Secret |-> secret, UseSSL |-> useSSL]]

\* ------------------------------------------------------------------ state
VARIABLES
  env,          \* the process environment the flags are bound to
  pc,           \* position of run()
  mode, mount,  \* locals of run()
  path, fallbackPath, flushPath, filename,
  s,            \* the storage client (its options), NilPtr before it is built
  flushAge,
  p,            \* the Plugin handed to Exec, NilPtr before it is built
  err,          \* the error run() returned, Nil if none
  storageCalls, \* number of calls of s3Storage
  newCalls,     \* number of calls of s3.New
  execCalls     \* number of calls of Plugin.Exec

vars == <<env, pc, mode, mount, path, fallbackPath, flushPath, filename, s,
          flushAge, p, err, storageCalls, newCalls, execCalls>>

Init ==
  /\ env \in Environments
  /\ pc = "start"
  /\ mode = "" /\ mount = <<>>
  /\ path = "" /\ fallbackPath = "" /\ flushPath = "" /\ filename = ""
  /\ s = NilPtr /\ flushAge = 0 /\ p = NilPtr /\ err = Nil
  /\ storageCalls = 0 /\ newCalls = 0 /\ execCalls = 0

\* run() returns e.
Return(e) == pc' = "returned" /\ err' = e

\* run(), lines 124-133: the mode flags are read and validated.
ValidateModes ==
  /\ pc = "start"
  /\ LET rebuild == Bool(env, "rebuild")
         restore == Bool(env, "restore")
         flush == Bool(env, "flush")
     IN IF isMultipleModes(<<rebuild, restore, flush>>)
        THEN Return("Must use a single mode: rebuild, restore or flush")
        ELSE IF ~rebuild /\ ~restore /\ ~flush
        THEN Return("No action specified")
        ELSE pc' = "mode" /\ err' = err
  /\ UNCHANGED <<env, mode, mount, path, fallbackPath, flushPath, filename, s,
                 flushAge, p, storageCalls, newCalls, execCalls>>

\* SelectMode without the check of the mount list.
SelectMode_NoMountCheck ==
  /\ pc = "mode"
  /\ IF Bool(env, "rebuild")
     THEN /\ mount' = StringSlice(env, "mount")
          /\ mode' = RebuildMode /\ pc' = "paths" /\ err' = err
     ELSE /\ mode' = IF Bool(env, "flush") THEN FlushMode ELSE RestoreMode
          /\ pc' = "paths"
          /\ UNCHANGED <<mount, err>>
  /\ UNCHANGED <<env, path, fallbackPath, flushPath, filename, s, flushAge, p,
                 storageCalls, newCalls, execCalls>>

\* SelectMode with the flush and restore branches swapped.
SelectMode_Swapped ==
  /\ pc = "mode"
  /\ IF Bool(env, "rebuild")
     THEN /\ mount' = StringSlice(env, "mount")
          /\ IF Len(mount') = 0
             THEN Return("No mounts specified") /\ mode' = mode
             ELSE mode' = RebuildMode /\ pc' = "paths" /\ err' = err
     ELSE /\ mode' = IF Bool(env, "flush") THEN RestoreMode ELSE FlushMode
          /\ pc' = "paths"
          /\ UNCHANGED <<mount, err>>
  /\ UNCHANGED <<env, path, fallbackPath, flushPath, filename, s, flushAge, p,
                 storageCalls, newCalls, execCalls>>

\* run(), lines 135-151: the mode is chosen, the mounts are read for rebuild.
SelectMode ==
  /\ pc = "mode"
  /\ IF Bool(env, "rebuild")
     THEN /\ mount' = StringSlice(env, "mount")
          /\ IF Len(mount') = 0
             THEN Return("No mounts specified") /\ mode' = mode
             ELSE mode' = RebuildMode /\ pc' = "paths" /\ err' = err
     ELSE /\ mode' = IF Bool(env, "flush") THEN FlushMode ELSE RestoreMode
          /\ pc' = "paths"
          /\ UNCHANGED <<mount, err>>
  /\ UNCHANGED <<env, path, fallbackPath, flushPath, filename, s, flushAge, p,
                 storageCalls, newCalls, execCalls>>

\* run(), lines 153-203: path, fallback path, flush path and filename.
ResolvePaths ==
  /\ pc = "paths"
  /\ path' = resolvePath(env)
  /\ fallbackPath' = resolveFallbackPath(env)
  /\ flushPath' = resolveFlushPath(env)
  /\ filename' = resolveFilename(env)
  /\ pc' = "storage"
  /\ UNCHANGED <<env, mode, mount, s, flushAge, p, err, storageCalls,
                 newCalls, execCalls>>

\* run(), lines 205-209, with s3Storage(): the storage client is built.
\* s3.New either returns a client for the options or fails.
BuildStorage ==
  /\ pc = "storage"
  /\ storageCalls' = storageCalls + 1
  /\ LET r == s3Options(env)
     IN IF r.err # Nil
        THEN Return(r.err) /\ UNCHANGED <<s, newCalls>>
        ELSE /\ newCalls' = newCalls + 1
             /\ \/ s' = r.opts /\ pc' = "flushAge" /\ err' = err
                \/ Return("s3.New failed") /\ s' = s
  /\ UNCHANGED <<env, mode, mount, path, fallbackPath, flushPath, filename,
                 flushAge, p, execCalls>>

\* run(), lines 211-215: the flush age is parsed.
ParseFlushAge ==
  /\ pc = "flushAge"
  /\ LET r == Atoi(String(env, "flush_age"))
     IN IF r.err # Nil
        THEN Return(r.err) /\ flushAge' = flushAge
        ELSE flushAge' = r.n /\ pc' = "plugin" /\ err' = err
  /\ UNCHANGED <<env, mode, mount, path, fallbackPath, flushPath, filename, s,
                 p, storageCalls, newCalls, execCalls>>

\* run(), lines 217-228: the Plugin is built and Exec is called.
CallExec ==
  /\ pc = "plugin"
  /\ p' = [Filename |-> filename, Path |-> path,
           FallbackPath |-> fallbackPath, FlushPath |-> flushPath,
           Mode |-> mode, FlushAge |-> flushAge, Mount |-> mount,
           Storage |-> s]
  /\ execCalls' = execCalls + 1
  /\ pc' = "exec"
  /\ UNCHANGED <<env, mode, mount, path, fallbackPath, flushPath, filename, s,
                 flushAge, err, storageCalls, newCalls>>

\* run(), line 228: Exec returns and run() returns its result.
ExecReturns ==
  /\ pc = "exec"
  /\ \/ Return(Nil)
     \/ Return("Exec failed")
  /\ UNCHANGED <<env, mode, mount, path, fallbackPath, flushPath, filename, s,
                 flushAge, p, storageCalls, newCalls, execCalls>>

Next ==
  \/ ValidateModes
  \/ SelectMode
  \/ ResolvePaths
  \/ BuildStorage
  \/ ParseFlushAge
  \/ CallExec
  \/ ExecReturns

Spec == Init /\ [][Next]_vars

\* The state of the cache orchestrator (the Plugin): Idle until Exec is
\* called, in its mode while Exec runs, Done or Failed once it has returned.
OrchestratorState ==
  IF execCalls = 0 THEN "Idle"
  ELSE IF pc = "exec"
  THEN CASE p.Mode = RebuildMode -> "Rebuilding"
         [] p.Mode = RestoreMode -> "Restoring"
         [] p.Mode = FlushMode -> "Flushing"
  ELSE IF err = Nil THEN "Done" ELSE "Failed"

\* ------------------------------------------------- what the user supplied
\* The inputs of an invocation, read off the environment directly.
Supplied(v) == IF v = Unset THEN "" ELSE v

Owner == IF env.PLUGIN_BUCKET # Unset THEN env.PLUGIN_BUCKET
         ELSE Supplied(env.DRONE_REPO_OWNER)
Repo == Supplied(env.DRONE_REPO_NAME)
Branch == IF env.DRONE_COMMIT_BRANCH = Unset THEN "master"
          ELSE env.DRONE_COMMIT_BRANCH
RebuildSet == env.PLUGIN_REBUILD = "true"
RestoreSet == env.PLUGIN_RESTORE = "true"
FlushSet == env.PLUGIN_FLUSH = "true"
ModeCount == Cardinality({n \in {"PLUGIN_REBUILD", "PLUGIN_RESTORE",
                                 "PLUGIN_FLUSH"} : env[n] = "true"})
NoMounts == env.PLUGIN_MOUNT = Unset
MultiModeErr == "Must use a single mode: rebuild, restore or flush"
NoModeErr == "No action specified"
NoMountsErr == "No mounts specified"
NoStorageNoExec == storageCalls = 0 /\ newCalls = 0 /\ execCalls = 0

\* ----------------------------------------------------------------- claims
\* C1: run() gets past mode validation only when exactly one of rebuild,
\* restore and flush is true; with two or three true it returns the
\* mode-conflict error, with none true it returns an error, both before
\* s3Storage and Plugin.Exec are called.
C1_ModeValidation ==
  pc # "start" =>
    /\ ModeCount >= 2 =>
         pc = "returned" /\ err = MultiModeErr /\ NoStorageNoExec
    /\ ModeCount = 0 =>
         pc = "returned" /\ err = NoModeErr /\ NoStorageNoExec
    /\ (pc # "returned" \/ err \notin {MultiModeErr, NoModeErr}) =>
         ModeCount = 1

C1_Witness ==
  pc = "returned" /\ RebuildSet /\ ~RestoreSet /\ FlushSet
  /\ err = MultiModeErr

\* C2: rebuild alone with an empty mount list fails with the usage error
\* before s3Storage and Plugin.Exec are called; in restore and flush mode an
\* empty mount list is not an error and run() goes on to build the storage.
C2_RebuildNeedsMounts ==
  (ModeCount = 1 /\ NoMounts /\ pc \notin {"start", "mode"}) =>
    /\ RebuildSet =>
         pc = "returned" /\ err = NoMountsErr /\ NoStorageNoExec
    /\ ~RebuildSet =>
         /\ err # NoMountsErr
         /\ pc = "returned" => storageCalls = 1

C2_Witness ==
  pc = "returned" /\ RebuildSet /\ ModeCount = 1 /\ NoMounts
  /\ err = NoMountsErr

C4_EmptyOwnerRepoFails ==
  (/\ Owner = "" \/ Repo = ""
   /\ \/ env.PLUGIN_PATH = Unset
      \/ env.PLUGIN_FALLBACK_PATH = Unset
      \/ env.PLUGIN_FLUSH_PATH = Unset) =>
    /\ execCalls = 0
    /\ pc = "returned" => err # Nil

\* C5: a flush_age that is not a non-negative integer makes run() fail
\* before the storage client is constructed and before Plugin.Exec.
NonNegativeInteger(v) == v # "" /\ AllDigits(v)
FlushAgeText == IF env.PLUGIN_FLUSH_AGE = Unset THEN "30"
                ELSE env.PLUGIN_FLUSH_AGE
C5_FlushAgeChecked ==
  ~NonNegativeInteger(FlushAgeText) =>
    /\ NoStorageNoExec
    /\ pc = "returned" => err # Nil

\* C6: a supplied, non-empty flush_path is the Plugin's FlushPath verbatim.
C6_ExplicitFlushPath ==
  (p # NilPtr /\ Supplied(env.PLUGIN_FLUSH_PATH) # "") =>
    p.FlushPath = env.PLUGIN_FLUSH_PATH

\* C7: a supplied, non-empty path is the Plugin's Path verbatim and a
\* supplied, non-empty fallback_path is its FallbackPath verbatim, each
\* defaulted only when its own option is empty.
C7_ExplicitPaths ==
  p # NilPtr =>
    /\ p.Path = IF Supplied(env.PLUGIN_PATH) # "" THEN env.PLUGIN_PATH
                ELSE "/" \o Owner \o "/" \o Repo \o "/" \o Branch \o "/"
    /\ p.FallbackPath =
         IF Supplied(env.PLUGIN_FALLBACK_PATH) # ""
         THEN env.PLUGIN_FALLBACK_PATH
         ELSE "/" \o Owner \o "/" \o Repo \o "/master/"

C7_Witness ==
  /\ p # NilPtr
  /\ env.PLUGIN_PATH = "/custom/" /\ env.PLUGIN_FALLBACK_PATH = Unset
  /\ p.Path = "/custom/" /\ p.FallbackPath = "/acme/widget/master/"

\* C8: Plugin.Exec is called at most once, only after all validation has
\* passed, with the Mode of the one flag that was set; the Plugin goes
\* Idle -> Rebuilding | Restoring | Flushing -> Done | Failed and neither the
\* chosen mode nor the Plugin changes afterwards.
Validated ==
  /\ ModeCount = 1
  /\ RebuildSet => ~NoMounts
  /\ s # NilPtr
  /\ LET digits == IF Len(FlushAgeText) > 0
                       /\ SubSeq(FlushAgeText, 1, 1) \in {"-", "+"}
                    THEN SubSeq(FlushAgeText, 2, Len(FlushAgeText))
                    ELSE FlushAgeText
     IN digits # "" /\ AllDigits(digits)
ModeOfFlags == IF RebuildSet THEN RebuildMode
               ELSE IF FlushSet THEN FlushMode ELSE RestoreMode
Running == {"Rebuilding", "Restoring", "Flushing"}
C8_SingleModeLifecycle ==
  [][/\ execCalls' <= 1
     /\ execCalls' # execCalls =>
          Validated /\ p'.Mode = ModeOfFlags /\ p'.Mode = mode
     /\ mode # "" => mode' = mode
     /\ p # NilPtr => p' = p
     /\ OrchestratorState' # OrchestratorState =>
          \/ OrchestratorState = "Idle" /\ OrchestratorState' \in Running
          \/ OrchestratorState \in Running
             /\ OrchestratorState' \in {"Done", "Failed"}]_vars

C8_Witness ==
  pc = "returned" /\ p # NilPtr /\ p.Mode = FlushMode /\ FlushSet /\ err = Nil

\* C9: the Plugin's Filename is archive.tar when filename is unset and the
\* supplied value otherwise; for acme/widget/feature-x with no path and no
\* filename the key Path+Filename is /acme/widget/feature-x/archive.tar.
C9_Filename ==
  p # NilPtr =>
    /\ p.Filename = IF Supplied(env.PLUGIN_FILENAME) = "" THEN "archive.tar"
                    ELSE env.PLUGIN_FILENAME
    /\ (/\ Owner = "acme" /\ Repo = "widget" /\ Branch = "feature-x"
        /\ env.PLUGIN_PATH = Unset /\ env.PLUGIN_FILENAME = Unset) =>
         p.Path \o p.Filename = "/acme/widget/feature-x/archive.tar"

C9_Witness ==
  /\ p # NilPtr /\ p.Mode = RebuildMode
  /\ env.PLUGIN_FILENAME = Unset /\ env.PLUGIN_PATH = Unset
  /\ p.Path \o p.Filename = "/acme/widget/feature-x/archive.tar"

\* C10: s3Storage fails for a server with neither scheme prefix, then for an
\* empty access or secret key; otherwise s3.New gets the server without its
\* scheme as endpoint and useSSL exactly for https://, and s3.amazonaws.com
\* with useSSL for an empty server.
Server == Supplied(env.PLUGIN_SERVER)
Http == Len(Server) >= 7 /\ SubSeq(Server, 1, 7) = "http://"
Https == Len(Server) >= 8 /\ SubSeq(Server, 1, 8) = "https://"
BadServer == Server # "" /\ ~Http /\ ~Https
NoCredentials ==
  Supplied(env.PLUGIN_ACCESS_KEY) = "" \/ Supplied(env.PLUGIN_SECRET_KEY) = ""
C10_StorageSettings ==
  storageCalls > 0 =>
    IF BadServer
    THEN /\ err = "Invalid server " \o Server \o ". Needs to be a HTTP URI"
         /\ s = NilPtr /\ newCalls = 0 /\ pc = "returned"
    ELSE IF NoCredentials
    THEN /\ err = "No access credentials provided"
         /\ s = NilPtr /\ newCalls = 0 /\ pc = "returned"
    ELSE /\ newCalls = 1
         /\ s # NilPtr =>
              /\ s.Access = env.PLUGIN_ACCESS_KEY
              /\ s.Secret = env.PLUGIN_SECRET_KEY
              /\ IF Server = ""
                 THEN s.Endpoint = "s3.amazonaws.com" /\ s.UseSSL
                 ELSE /\ Server = (IF s.UseSSL THEN "https://" ELSE "http://")
                                  \o s.Endpoint
                      /\ s.UseSSL <=> Https

C10_Witness ==
  s # NilPtr /\ Server = "https://s3.local" /\ s.Endpoint = "s3.local"
  /\ s.UseSSL

====
